---- MODULE Spec2Model ----
(***************************************************************************)
(* Model of the image slide deck generator: the POST /api/slides handler   *)
(* (src/app/api/slides/route.js and the earlier revision kept in           *)
(* src/unnamed/part_001), the Gemini adapter (src/utils/gemini.js) and the *)
(* summary parser.                                                         *)
(*                                                                         *)
(* Texts are sequences of atoms.  An atom is one character ("#", " ",      *)
(* "\n", "a", ...) or a run of characters of a literal the code writes     *)
(* ("Error", "Untitled Slide", ...).  A run holds no line terminator and   *)
(* neither begins nor ends with white space, and every literal the code    *)
(* searches for (startsWith, includes, split) is cut at the places the     *)
(* search looks at, so these operations and the regular expression of the  *)
(* parser act on atoms as the code acts on characters.                     *)
(***************************************************************************)
EXTENDS Integers, Sequences, FiniteSets, TLC

VARIABLES
    impl,          \* which revision of the handler serves: "route" | "part001"
    req,           \* the request: [body, images, model, messages, captions]
    pc,            \* position of the handler
    i,             \* index of the image being processed (1-based)
    loc,           \* locals of the loop body
    slides,        \* the slides array built so far
    pushedFor,     \* history: the image index each slides.push was made for
    response,      \* the HTTP response, NoResponse until the handler returns
    calls,         \* history: vendor operations invoked for the current image
    vendorCalled,  \* history: some vendor operation was invoked for this request
    thrown,        \* history: message of the exception this iteration threw
    googleKey,     \* process.env.GOOGLE_API_KEY: "unread" | "set" | "absent"
    retryCount,    \* analyzeImageWithGemini's retry counter
    parseIn,       \* harness of one function: the text given to it
    parseOut       \* harness of one function: what it returned

vars == <<impl, req, pc, i, loc, slides, pushedFor, response, calls,
          vendorCalled, thrown, googleKey, retryCount, parseIn, parseOut>>

-----------------------------------------------------------------------------
(* Bounds *)

MaxImages == 2

MaxLen == 4

\* longest text the vendor returns to summarizeWithGemini on its own
MaxSummaryLen == 52
MaxUrlLen == 5

-----------------------------------------------------------------------------
(* Texts *)

SP == " "

NL == "\n"

Chars == {"#", SP, NL, "a"}

RECURSIVE Words(_)
\* the words of ws joined by single spaces
Words(ws) ==
    IF Len(ws) = 0 THEN <<>>
    ELSE IF Len(ws) = 1 THEN <<ws[1]>>
    ELSE <<ws[1], SP>> \o Words(Tail(ws))

\* String.prototype.startsWith
StartsWith(s, p) == Len(s) >= Len(p) /\ SubSeq(s, 1, Len(p)) = p

\* String.prototype.includes
Includes(s, p) ==
    \E k \in 0..(Len(s) - Len(p)) : SubSeq(s, k + 1, k + Len(p)) = p

\* the regular expression classes \s and line terminator
IsWhiteSpace(c) == c \in {SP, NL}

IsLineTerminator(c) == c = NL

Min(S) == CHOOSE m \in S : \A n \in S : m <= n

Max(S) == CHOOSE m \in S : \A n \in S : m >= n

\* String.prototype.trim
Trim(s) ==
    LET keep == {k \in 1..Len(s) : ~IsWhiteSpace(s[k])}
    IN  IF keep = {} THEN <<>> ELSE SubSeq(s, Min(keep), Max(keep))

\* Texts of at most n characters
TextsUpTo(n) == UNION {[1..k -> Chars] : k \in 0..n}

-----------------------------------------------------------------------------
(* The summary parser: /^#\s*(.+)$/m *)

\* ^ under the m flag: at the start of the input or right after a line terminator
AtLineStart(s, p) == p = 1 \/ IsLineTerminator(s[p - 1])

\* last position of the run of non-terminators that starts at q (. is any
\* character but a line terminator, $ is before a terminator or at the end)
LineEnd(s, q) ==
    LET stops == {e \in q..Len(s) : IsLineTerminator(s[e])}
    IN  IF stops = {} THEN Len(s) ELSE Min(stops) - 1

NoMatch == [found |-> FALSE, start |-> 0, capFrom |-> 0, end |-> 0]

\* the match of /^#\s*(.+)$/m that starts at p, if there is one.  \s* is greedy
\* and takes line terminators too; when the white space runs to the end of the
\* input it gives characters back until (.+) finds a non-terminator.
MatchAt(s, p) ==
    IF ~(AtLineStart(s, p) /\ s[p] = "#") THEN NoMatch
    ELSE
        LET black == {w \in (p + 1)..Len(s) : ~IsWhiteSpace(s[w])}
            back  == {k \in (p + 1)..Len(s) : ~IsLineTerminator(s[k])}
        IN  IF black # {}
            THEN [found |-> TRUE, start |-> p, capFrom |-> Min(black),
                  end |-> LineEnd(s, Min(black))]
            ELSE IF back # {}
            THEN [found |-> TRUE, start |-> p, capFrom |-> Max(back),
                  end |-> Max(back)]
            ELSE NoMatch

\* String.prototype.match / replace without the g flag: the leftmost match
HeadingMatch(s) ==
    LET ps == {p \in 1..Len(s) : MatchAt(s, p).found}
    IN  IF ps = {} THEN NoMatch ELSE MatchAt(s, Min(ps))

UntitledSlide == <<"Untitled Slide">>

extractTitle(summary) ==
    LET titleMatch == HeadingMatch(summary)
    IN  IF titleMatch.found
        THEN Trim(SubSeq(summary, titleMatch.capFrom, titleMatch.end))
        ELSE UntitledSlide

extractContent(summary) ==
    LET m == HeadingMatch(summary)
    IN  IF m.found
        THEN Trim(SubSeq(summary, 1, m.start - 1)
                  \o SubSeq(summary, m.end + 1, Len(summary)))
        ELSE Trim(summary)

parseSummary(summary) ==
    [title |-> extractTitle(summary), content |-> extractContent(summary)]

-----------------------------------------------------------------------------
(* Literals of the code *)

Empty == <<>>

NoExplanationGenerated == <<"No explanation generated">>

ErrorGeneratingExplanation == <<"Error", SP, "generating explanation">>

ErrorProcessingImage == <<"Error", SP, "Processing Image">>

ErrorCreatingSlide == <<"Error", SP, "Creating Slide">>

InterestingImage == Words(<<"interesting", "image">>)

GeminiErrorPrefix == <<"Error", SP, "analyzing image with Gemini:">>

GeminiSummaryErrorPrefix == <<"Error", SP, "summarizing with Gemini:">>

MissingKeyMessage ==
    Words(<<"Google", "API", "key", "is", "not", "defined", "in", "environment",
            "variables", "(GOOGLE_API_KEY)">>)

InvalidDataUrl == <<"Invalid data URL format">>

InitGoogleAINotDefined == <<"initGoogleAI is not defined">>

ValidModels == {"openai", "gemini", "anthropic"}

-----------------------------------------------------------------------------
(* What the outside world can answer *)

\* explanations a vision model returns
ExplainTexts == {<<"e">>}

\* summaries a text model returns: heading and body, heading only, nothing
SummaryTexts == {<<"#", SP, "a", NL, "a">>, <<"#", SP, "a">>, <<>>}

\* one-sentence descriptions a vision model returns
DescribeTexts == {<<"a", SP, "cat", ".", SP, "a">>}

\* messages of the errors the Gemini SDK raises
FetchFailed == Words(<<"fetch", "failed">>)

GeminiErrors ==
    {FetchFailed, <<"timeout">>, <<"quota">>, <<"boom">>}

\* message of any other exception (network failure, malformed body, ...)
Boom == <<"boom">>

\* kinds of value an element of images can be: a well-formed data URL, a string
\* that starts with data: and holds ;base64, but is no data URL, another string,
\* a value that is no string
ImageKinds == {"dataurl", "malformed", "string", "nonString"}

IdAtoms == <<"1", "2", "3", "4", "5", "6">>

UserMessage(k) == <<"m", IdAtoms[k]>>

UserCaption(k) == <<"c", IdAtoms[k]>>

-----------------------------------------------------------------------------
(* Slides *)

NoResponse == [status |-> 0, slides |-> <<>>, error |-> Empty]

\* no slide built yet
NoSlide == [title |-> Empty]

NoLoc == [image |-> "none", message |-> Empty, caption |-> Empty,
          explanation |-> Empty, slide |-> NoSlide]

\* slides.push
PushSlideMutDropErrors(sl, slide) ==
    IF slide.title = ErrorProcessingImage THEN sl ELSE Append(sl, slide)

PushSlide(sl, slide) == Append(sl, slide)

\* the slide the loop's catch block of route.js builds
CatchSlideMutNoMessage(msg) ==
    [title |-> ErrorProcessingImage,
     content |-> <<"There was an error processing this image:">>,
     fullExplanation |-> <<"Error", SP, "details:">>,
     originalMessage |-> Empty,
     originalCaption |-> Empty]

CatchSlide(msg) ==
    [title |-> ErrorProcessingImage,
     content |-> <<"There was an error processing this image:">> \o <<SP>> \o msg,
     fullExplanation |-> <<"Error", SP, "details:", SP>> \o msg,
     originalMessage |-> Empty,
     originalCaption |-> Empty]

-----------------------------------------------------------------------------
(* generateImageContext *)

\* description.split(' ').slice(0, n).join(' ')
FirstWords(description, n) ==
    LET spaces == {k \in 1..Len(description) : description[k] = SP}
        nth    == {k \in spaces : Cardinality({j \in spaces : j < k}) = n - 1}
    IN  IF nth = {} THEN description
        ELSE SubSeq(description, 1, Min(nth) - 1)

\* description.split('.')[0]
BeforeDot(description) ==
    LET dots == {k \in 1..Len(description) : description[k] = "."}
    IN  IF dots = {} THEN description
        ELSE SubSeq(description, 1, Min(dots) - 1)

ContextMessage(description) ==
    <<"Let's explore the details and significance of this", SP>>
    \o FirstWords(description, 5) \o <<"...">>

ContextCaption(description) == BeforeDot(description) \o <<".">>

\* result.trim() || "interesting image"
TrimOrDefault(text) == IF Trim(text) = Empty THEN InterestingImage ELSE Trim(text)

-----------------------------------------------------------------------------
(* The OpenAI adapter *)

\* the call of the vendor came back with a text
OpenAIAnswered(outcome) == outcome.kind = "content"

OpenAIExplainOutcomes ==
    {[kind |-> "content", text |-> t] : t \in ExplainTexts \cup {Empty}}
    \cup {[kind |-> "apiError", text |-> Empty], [kind |-> "throw", text |-> Boom]}

\* explainWithOpenAI, given what createChatCompletion and response.json() did
explainWithOpenAI(outcome) ==
    CASE outcome.kind = "throw"    -> ErrorGeneratingExplanation
      [] outcome.kind = "apiError" -> NoExplanationGenerated
      [] OTHER -> IF outcome.text = Empty THEN NoExplanationGenerated
                  ELSE outcome.text

OpenAISummarizeOutcomes ==
    {[kind |-> "content", text |-> t] : t \in SummaryTexts}
    \cup {[kind |-> "throw", text |-> Boom]}

AnalysisHeading == <<"#", SP>> \o <<"Analysis of the Image">>

AppearsToShow(caption) ==
    <<"This image appears to show">> \o <<SP>>
    \o (IF caption = Empty THEN <<"interesting content">> ELSE caption)
    \o <<".">>

\* the text summarizeWithOpenAI of route.js returns from its catch block
OpenAIFallbackSummary(caption, msg) ==
    AnalysisHeading \o <<NL, NL>> \o AppearsToShow(caption) \o <<NL, NL>>
    \o <<"- The image contains details that would be analyzed further with a working connection to OpenAI.",
         NL,
         "- Unfortunately, there was an error connecting to the AI service.",
         NL>>
    \o <<"- Try again or select a different AI model.">> \o <<NL, NL>>
    \o <<"Error details:">> \o <<SP>> \o msg

\* summarizeWithOpenAI of route.js: the streamed text, or the fallback text
RouteSummarizeWithOpenAI(outcome, caption) ==
    IF outcome.kind = "throw" THEN OpenAIFallbackSummary(caption, outcome.text)
    ELSE outcome.text

NoSummaryGenerated == <<"No summary generated">>

-----------------------------------------------------------------------------
(* The Gemini adapter *)

MAX_RETRIES == 2

\* extractBase64FromDataUrl on a kind of image value: the error it throws,
\* Empty when it returns the payload
extractBase64FromDataUrl(kind) ==
    IF kind = "malformed" THEN InvalidDataUrl ELSE Empty

\* the retry test of attemptAnalysis
ShouldRetryMutAnyError(msg, count) == count < MAX_RETRIES

ShouldRetryMutNoBudget(msg, count) ==
    \/ Includes(msg, FetchFailed)
    \/ Includes(msg, <<"network">>)
    \/ Includes(msg, <<"timeout">>)
    \/ Includes(msg, <<"ECONNRESET">>)
    \/ Includes(msg, <<"ETIMEDOUT">>)

ShouldRetry(msg, count) ==
    /\ count < MAX_RETRIES
    /\ \/ Includes(msg, FetchFailed)
       \/ Includes(msg, <<"network">>)
       \/ Includes(msg, <<"timeout">>)
       \/ Includes(msg, <<"ECONNRESET">>)
       \/ Includes(msg, <<"ETIMEDOUT">>)

\* the error string attemptAnalysis returns for an error it does not retry
AnalysisErrorMutNoKeyBranch(msg) == GeminiErrorPrefix \o <<SP>> \o msg

AnalysisErrorMutBareQuota(msg) ==
    IF Includes(msg, <<"quota">>)
    THEN <<"API quota exceeded. Please try again later.">>
    ELSE GeminiErrorPrefix \o <<SP>> \o msg

AnalysisError(msg) ==
    GeminiErrorPrefix \o <<SP>> \o
    ( IF Includes(msg, Words(<<"API", "key">>))
      THEN <<"Invalid or missing API key. Please check your environment variables.">>
      ELSE IF Includes(msg, <<"permission">>) \/ Includes(msg, <<"access">>)
      THEN <<"Permission denied. Your API key may not have access to this model.">>
      ELSE IF Includes(msg, <<"quota">>) \/ Includes(msg, <<"limit">>)
      THEN <<"API quota exceeded. Please try again later.">>
      ELSE IF \/ Includes(msg, <<"network">>)
              \/ Includes(msg, <<"connect">>)
              \/ Includes(msg, FetchFailed)
      THEN <<"Network error.", SP,
             "Please check your internet connection or try a different AI model. Error details:",
             SP>> \o msg
      ELSE msg )

\* the error string summarizeWithGemini of utils/gemini.js returns
SummaryError(msg) ==
    GeminiSummaryErrorPrefix \o <<SP>> \o
    ( IF Includes(msg, Words(<<"API", "key">>))
      THEN <<"Invalid or missing API key. Please check your environment variables.">>
      ELSE IF Includes(msg, <<"permission">>) \/ Includes(msg, <<"access">>)
      THEN <<"Permission denied. Your API key may not have access to this model.">>
      ELSE IF Includes(msg, <<"quota">>) \/ Includes(msg, <<"limit">>)
      THEN <<"API quota exceeded. Please try again later.">>
      ELSE IF Includes(msg, <<"network">>) \/ Includes(msg, <<"connect">>)
      THEN <<"Network error.", SP, "Please check your internet connection.">>
      ELSE msg )

\* the text summarizeWithGemini of route.js returns from its catch block
GeminiFallbackSummary(caption, msg) ==
    AnalysisHeading \o <<NL, NL>> \o AppearsToShow(caption) \o <<NL, NL>>
    \o <<"- The image contains elements that would be analyzed with a working connection to Gemini.",
         NL,
         "- Unfortunately, there was an error connecting to the AI service.",
         NL>>
    \o <<"- Try again or select a different AI model.">> \o <<NL, NL>>
    \o <<"Error details:">> \o <<SP>> \o msg

\* summarizeWithGemini of route.js.  Its first statement calls initGoogleAI,
\* a name route.js neither defines nor imports: the call raises a
\* ReferenceError inside the try block and the catch block returns the
\* fallback text, before any request to the vendor.
RouteSummarizeWithGemini(caption) ==
    GeminiFallbackSummary(caption, InitGoogleAINotDefined)

-----------------------------------------------------------------------------
(* The Claude adapter (utils/anthropic) *)

ClaudeErrorText == <<"Error", SP, "analyzing image with Claude">>

ClaudeSummaryErrorText == <<"Error", SP, "summarizing with Claude">>

\* analyzeImageWithClaude: the explanation, or a string that begins with Error
ClaudeExplainResults == ExplainTexts \cup {ClaudeErrorText}

\* summarizeWithClaude: the summary, or a string that begins with Error
ClaudeSummarizeResults == SummaryTexts \cup {ClaudeSummaryErrorText}

-----------------------------------------------------------------------------
(* Requests *)

NoList == [present |-> FALSE, items |-> <<>>]

UserMessages(n) == [present |-> TRUE, items |-> [k \in 1..n |-> UserMessage(k)]]

UserCaptions(n) == [present |-> TRUE, items |-> [k \in 1..n |-> UserCaption(k)]]

\* messages and captions of a request with n images for model m: both
\* absent, or (sent along with one of the models) the messages complete and
\* the captions one entry short
Annotations(n, m) ==
    {[messages |-> NoList, captions |-> NoList]}
    \cup (IF n = 0 \/ m # "openai" THEN {}
          ELSE {[messages |-> UserMessages(n), captions |-> UserCaptions(n - 1)]})

NoImages == [kind |-> "absent", len |-> 0]

Models == {"absent", "openai", "gemini", "anthropic", "bogus"}

Requests ==
    {[body |-> b, images |-> NoImages, model |-> "absent",
      messages |-> NoList, captions |-> NoList] : b \in {"invalid", "null"}}
    \cup
    {[body |-> "json", images |-> [kind |-> k, len |-> 0], model |-> m,
      messages |-> NoList, captions |-> NoList] :
        k \in {"absent", "notArray"}, m \in Models}
    \cup
    UNION {
      {[body |-> "json", images |-> [kind |-> "array", len |-> nm[1]],
        model |-> nm[2], messages |-> a.messages, captions |-> a.captions] :
          a \in Annotations(nm[1], nm[2])} : nm \in (0..MaxImages) \X Models}

NoParse == [title |-> Empty, content |-> Empty]

Init ==
    /\ impl \in {"route", "part001"}
    /\ req \in Requests
    /\ pc = "start"
    /\ i = 1
    /\ loc = NoLoc
    /\ slides = <<>>
    /\ pushedFor = <<>>
    /\ response = NoResponse
    /\ calls = <<>>
    /\ vendorCalled = FALSE
    /\ thrown = Empty
    /\ googleKey = "unread"
    /\ retryCount = 0
    /\ parseIn = Empty
    /\ parseOut = NoParse

-----------------------------------------------------------------------------
(* Steps shared by the handlers *)

\* process.env.GOOGLE_API_KEY as initGoogleAI reads it: the environment is
\* fixed for the life of the process, so every read gives what the first gave
KeyValues == IF googleKey = "unread" THEN {"set", "absent"} ELSE {googleKey}

\* one vendor operation is invoked for the current image: ok tells whether the
\* call came back, text is what the adapter returns to its caller (for an
\* attempt that analyzeImageWithGemini retries, the message of the error)
Called(op, ok, text) == [op |-> op, ok |-> ok, text |-> text]

CallMutTwoInFlight(op, ok, text) ==
    /\ calls' = Append(Append(calls, Called(op, ok, text)), Called(op, ok, text))
    /\ vendorCalled' = TRUE

Call(op, ok, text) ==
    /\ calls' = Append(calls, Called(op, ok, text))
    /\ vendorCalled' = TRUE

NoCall == UNCHANGED <<calls, vendorCalled>>

\* the loop body has built the slide for image i; slides.push comes next
Stage(slide, msg) ==
    /\ pc' = "push"
    /\ loc' = [loc EXCEPT !.slide = slide]
    /\ thrown' = msg
    /\ retryCount' = 0
    /\ UNCHANGED <<slides, pushedFor, i>>

\* ... in the try block
EndImage(slide) == Stage(slide, Empty)

\* ... in the catch block, after an exception with message msg
Throw(slide, msg) == Stage(slide, msg)

Goto(p, l) ==
    /\ pc' = p
    /\ loc' = l
    /\ thrown' = Empty
    /\ UNCHANGED <<slides, pushedFor, i, retryCount>>

\* slides.push(...), which ends the iteration for image i
SlidesPush ==
    /\ pc = "push"
    /\ slides' = PushSlide(slides, loc.slide)
    /\ pushedFor' = Append(pushedFor, i)
    /\ i' = i + 1
    /\ pc' = "loop"
    /\ loc' = NoLoc
    /\ calls' = <<>>
    /\ thrown' = Empty
    /\ UNCHANGED <<impl, req, response, vendorCalled, googleKey, retryCount,
                   parseIn, parseOut>>

Respond(r) ==
    /\ response' = r
    /\ pc' = "done"
    /\ UNCHANGED <<impl, req, i, loc, slides, pushedFor, calls, vendorCalled,
                   thrown, googleKey, retryCount, parseIn, parseOut>>

-----------------------------------------------------------------------------
(* POST of route.js *)

NoImagesProvided == <<"No images provided">>

\* lines 121-127: the answer of the outer catch block
RouteServerErrorMutNoMessage(msg) ==
    [status |-> 500, slides |-> <<>>, error |-> Empty]

RouteServerError(msg) ==
    [status |-> 500, slides |-> <<>>, error |-> <<"Server error:", SP>> \o msg]

JsonError == <<"Unexpected token">>

NotAFunction == <<"image_url.startsWith is not a function">>

\* the guard of the 400 answer
RouteImagesInvalidMutEmptyOk(data) ==
    data.body = "null" \/ data.images.kind # "array"

RouteImagesInvalid(data) ==
    data.body = "null" \/ data.images.kind # "array" \/ data.images.len = 0

\* data.model || "openai"
RouteModelMutDefaultGemini(data) ==
    IF data.model = "absent" THEN "gemini" ELSE data.model

RouteModel(data) == IF data.model = "absent" THEN "openai" ELSE data.model

FailedToAnalyze(model) ==
    <<"Failed to analyze image with", SP, model>>

FailedToSummarize(model) ==
    <<"Failed to summarize explanation with", SP, model>>

\* lines 87-102 of route.js: the slide the try block pushes
RouteSlide(explanation, summary, title, message, caption) ==
    [title |-> IF title = Empty THEN extractTitle(summary) ELSE title,
     content |-> IF title = Empty THEN extractContent(summary) ELSE summary,
     fullExplanation |-> explanation,
     originalMessage |-> message,
     originalCaption |-> caption]

\* lines 74-85 of route.js: the message of the Error the try block throws,
\* Empty when it throws none
RouteThrown(explanation, summary, model) ==
    IF explanation = Empty THEN FailedToAnalyze(model)
    ELSE IF summary = Empty THEN FailedToSummarize(model)
    ELSE Empty

\* lines 74-113 of route.js: the end of the loop body, in the try block or,
\* when it throws, in the catch block
RouteFinish(explanation, summary, title) ==
    LET msg == RouteThrown(explanation, summary, RouteModel(req))
    IN  IF msg # Empty THEN Throw(CatchSlide(msg), msg)
        ELSE EndImage(RouteSlide(explanation, summary, title,
                                 loc.message, loc.caption))

\* what processImageWithOpenAI and processImageWithGemini return
ProcessResult(explanation, summary) ==
    [title |-> extractTitle(summary),
     content |-> extractContent(summary),
     fullExplanation |-> explanation]

RouteReadRequest ==
    /\ impl = "route"
    /\ pc = "start"
    /\ IF req.body = "invalid"
       THEN Respond(RouteServerError(JsonError))
       ELSE IF RouteImagesInvalid(req)
       THEN Respond([status |-> 400, slides |-> <<>>, error |-> NoImagesProvided])
       ELSE /\ pc' = "loop"
            /\ UNCHANGED <<impl, req, i, loc, slides, pushedFor, response, calls,
                           vendorCalled, thrown, googleKey, retryCount, parseIn,
                           parseOut>>

\* lines 29-43: the next image is taken and brought to a data URL
RouteBeginImage ==
    /\ impl = "route"
    /\ pc = "loop"
    /\ i <= req.images.len
    /\ calls' = <<>>
    /\ UNCHANGED <<impl, req, response, vendorCalled, googleKey, parseIn, parseOut>>
    /\ \E kind \in ImageKinds :
         \/ /\ kind \in {"dataurl", "malformed"}
            /\ Goto("context", [NoLoc EXCEPT !.image = kind])
         \/ /\ kind = "string"
            \* fetch and blobToBase64 give a data URL
            /\ Goto("context", [NoLoc EXCEPT !.image = "dataurl"])
         \/ /\ kind = "string"
            \* fetch or blobToBase64 throws
            /\ Throw(CatchSlide(Boom), Boom)
         \/ /\ kind = "nonString"
            /\ Throw(CatchSlide(NotAFunction), NotAFunction)

DescribeOutcomes ==
    {[kind |-> "content", text |-> t] : t \in DescribeTexts}
    \cup {[kind |-> "throw", text |-> Boom]}

\* quickDescribeWithOpenAI and quickDescribeWithGemini on the vendor's answer
QuickDescribe(outcome) ==
    IF outcome.kind = "throw" THEN InterestingImage
    ELSE TrimOrDefault(outcome.text)

\* lines 46-76: after generateImageContext, the dispatch on the model
AfterContextMutStickyFallback(description) ==
    LET model == RouteModel(req)
        l == [loc EXCEPT !.message = ContextMessage(description),
                         !.caption = ContextCaption(description)]
    IN  CASE model = "openai"    -> Goto("oa_explain", l)
          [] model = "gemini"    -> Goto(IF i > 1 THEN "oa_explain" ELSE "gm_attempt", l)
          [] model = "anthropic" -> Goto("cl_explain", l)
          [] OTHER -> Throw(CatchSlide(FailedToAnalyze(model)),
                            FailedToAnalyze(model))

AfterContext(description) ==
    LET model == RouteModel(req)
        l == [loc EXCEPT !.message = ContextMessage(description),
                         !.caption = ContextCaption(description)]
    IN  CASE model = "openai"    -> Goto("oa_explain", l)
          [] model = "gemini"    -> Goto("gm_attempt", l)
          [] model = "anthropic" -> Goto("cl_explain", l)
          [] OTHER -> Throw(CatchSlide(FailedToAnalyze(model)),
                            FailedToAnalyze(model))

\* generateImageContext
RouteContext ==
    /\ impl = "route"
    /\ pc = "context"
    /\ UNCHANGED <<impl, req, response, parseIn, parseOut>>
    /\ \/ /\ RouteModel(req) = "openai"
          /\ \E o \in DescribeOutcomes :
               /\ Call("describe:openai", o.kind = "content", QuickDescribe(o))
               /\ AfterContext(QuickDescribe(o))
          /\ UNCHANGED googleKey
       \/ /\ RouteModel(req) = "gemini"
          /\ \E key \in KeyValues :
               /\ googleKey' = key
               /\ IF key = "absent" \/ extractBase64FromDataUrl(loc.image) # Empty
                  THEN NoCall /\ AfterContext(InterestingImage)
                  ELSE \E o \in DescribeOutcomes :
                         /\ Call("describe:gemini", o.kind = "content",
                                 QuickDescribe(o))
                         /\ AfterContext(QuickDescribe(o))
       \/ /\ RouteModel(req) = "anthropic"
          /\ NoCall
          /\ AfterContext(InterestingImage)
          /\ UNCHANGED googleKey
       \/ /\ RouteModel(req) \notin ValidModels
          /\ NoCall
          /\ AfterContext(Empty)
          /\ UNCHANGED googleKey

\* processImageWithOpenAI, first await: explainWithOpenAI
OpenAIExplain ==
    /\ impl = "route"
    /\ pc = "oa_explain"
    /\ \E o \in OpenAIExplainOutcomes :
         /\ Call("explain:openai", OpenAIAnswered(o), explainWithOpenAI(o))
         /\ Goto("oa_summarize", [loc EXCEPT !.explanation = explainWithOpenAI(o)])
    /\ UNCHANGED <<impl, req, response, googleKey, parseIn, parseOut>>

\* processImageWithOpenAI, second await: summarizeWithOpenAI, then the rest
\* of the loop body
OpenAISummarize ==
    /\ impl = "route"
    /\ pc = "oa_summarize"
    /\ \E o \in OpenAISummarizeOutcomes :
         LET summary == RouteSummarizeWithOpenAI(o, loc.caption)
             result  == ProcessResult(loc.explanation, summary)
         IN  /\ Call("summarize:openai", OpenAIAnswered(o), summary)
             /\ RouteFinish(result.fullExplanation, result.content, result.title)
    /\ UNCHANGED <<impl, req, response, googleKey, parseIn, parseOut>>

\* lines 116-119
RouteRespond ==
    /\ impl = "route"
    /\ pc = "loop"
    /\ i > req.images.len
    /\ Respond([status |-> 200, slides |-> slides, error |-> Empty])

-----------------------------------------------------------------------------
(* POST of part_001, lines 13-119 *)

InvalidModelSelected ==
    <<"Invalid model selected. Choose from: openai, gemini, anthropic">>

NullDestructure == <<"Cannot destructure property 'images'">>

\* const { images, model = "openai" } = ...
Part1Model(data) == IF data.model = "absent" THEN "openai" ELSE data.model

Part1ImagesInvalid(data) == data.images.kind # "array" \/ data.images.len = 0

Part1GenericContent ==
    <<"There was an error processing this image. Please try again with another image or select a different AI model.">>

\* lines 55-59 and 102-106: the slide for a failed explanation or an exception
Part1ErrorSlide(detail) ==
    [title |-> ErrorProcessingImage,
     content |-> Part1GenericContent,
     fullExplanation |-> detail]

\* lines 79-83
Part1SummaryErrorSlide(explanation) ==
    [title |-> ErrorCreatingSlide,
     content |-> <<"There was an error creating this slide. Here's the raw explanation instead.">>,
     fullExplanation |-> explanation]

\* line 51
IsExplanationError(explanation) ==
    StartsWith(explanation, <<"Error">>) \/ explanation = NoExplanationGenerated

\* line 75
IsSummaryError(summary) == StartsWith(summary, <<"Error">>)

\* lines 74-97: the slide pushed once the summary is there
Part1Slide(explanation, summary) ==
    IF IsSummaryError(summary) THEN Part1SummaryErrorSlide(explanation)
    ELSE [title |-> parseSummary(summary).title,
          content |-> parseSummary(summary).content,
          fullExplanation |-> explanation]

\* lines 50-63: after the explain step
Part1AfterExplain(explanation, l) ==
    IF IsExplanationError(explanation)
    THEN EndImage(Part1ErrorSlide(explanation))
    ELSE Goto("p1_summarize", [l EXCEPT !.explanation = explanation])

Part1ReadRequest ==
    /\ impl = "part001"
    /\ pc = "start"
    /\ IF req.body = "invalid"
       THEN Respond([status |-> 500, slides |-> <<>>, error |-> JsonError])
       ELSE IF req.body = "null"
       THEN Respond([status |-> 500, slides |-> <<>>, error |-> NullDestructure])
       ELSE IF Part1ImagesInvalid(req)
       THEN Respond([status |-> 400, slides |-> <<>>, error |-> NoImagesProvided])
       ELSE IF Part1Model(req) \notin ValidModels
       THEN Respond([status |-> 400, slides |-> <<>>,
                     error |-> InvalidModelSelected])
       ELSE /\ pc' = "loop"
            /\ UNCHANGED <<impl, req, i, loc, slides, pushedFor, response, calls,
                           vendorCalled, thrown, googleKey, retryCount, parseIn,
                           parseOut>>

\* lines 31-61: the next image, and its explanation (for gemini, the call of
\* analyzeImageWithGemini starts)
Part1Explain ==
    /\ impl = "part001"
    /\ pc = "loop"
    /\ i <= req.images.len
    /\ UNCHANGED <<impl, req, response, googleKey, parseIn, parseOut>>
    /\ \E kind \in ImageKinds :
         LET l == [NoLoc EXCEPT !.image = kind]
         IN  \/ /\ kind = "nonString"
                /\ calls' = <<>>
                /\ UNCHANGED vendorCalled
                /\ Throw(Part1ErrorSlide(NotAFunction), NotAFunction)
             \/ /\ kind # "nonString"
                /\ Part1Model(req) = "openai"
                /\ \E o \in OpenAIExplainOutcomes :
                     /\ calls' = <<Called("explain:openai", OpenAIAnswered(o),
                                          explainWithOpenAI(o))>>
                     /\ vendorCalled' = TRUE
                     /\ Part1AfterExplain(explainWithOpenAI(o), l)
             \/ /\ kind # "nonString"
                /\ Part1Model(req) = "gemini"
                /\ calls' = <<>>
                /\ UNCHANGED vendorCalled
                /\ Goto("gm_attempt", l)
             \/ /\ kind # "nonString"
                /\ Part1Model(req) = "anthropic"
                /\ \E e \in ClaudeExplainResults :
                     /\ calls' = <<Called("explain:claude", e \in ExplainTexts, e)>>
                     /\ vendorCalled' = TRUE
                     /\ Part1AfterExplain(e, l)

Part1OpenAISummarizeOutcomes ==
    {[kind |-> "content", text |-> t] : t \in SummaryTexts}
    \cup {[kind |-> "noContent", text |-> Empty]}

\* summarizeWithOpenAI of part_001 (lines 159-194) when the call returns
Part1SummarizeWithOpenAI(outcome) ==
    IF outcome.text = Empty THEN NoSummaryGenerated ELSE outcome.text

GeminiSummarizeOutcomes ==
    {[kind |-> "content", text |-> t] : t \in SummaryTexts}
    \cup {[kind |-> "throw", text |-> m] : m \in {<<"quota">>, Boom}}

\* summarizeWithGemini of utils/gemini.js, given the key and the vendor's answer
summarizeWithGemini(key, outcome) ==
    IF key = "absent" THEN SummaryError(MissingKeyMessage)
    ELSE IF outcome.kind = "throw" THEN SummaryError(outcome.text)
    ELSE outcome.text

\* lines 65-97: the summarize step and the slide
Part1Summarize ==
    /\ impl = "part001"
    /\ pc = "p1_summarize"
    /\ UNCHANGED <<impl, req, response, parseIn, parseOut>>
    /\ \/ /\ Part1Model(req) = "openai"
          /\ UNCHANGED googleKey
          /\ \/ \E o \in Part1OpenAISummarizeOutcomes :
                  /\ Call("summarize:openai", OpenAIAnswered(o),
                          Part1SummarizeWithOpenAI(o))
                  /\ EndImage(Part1Slide(loc.explanation,
                                         Part1SummarizeWithOpenAI(o)))
             \* summarizeWithOpenAI rethrows: the loop's catch block
             \/ /\ Call("summarize:openai", FALSE, Empty)
                /\ Throw(Part1ErrorSlide(Boom), Boom)
       \/ /\ Part1Model(req) = "gemini"
          /\ \E key \in KeyValues :
               /\ googleKey' = key
               /\ IF key = "absent"
                  THEN /\ NoCall
                       /\ EndImage(Part1Slide(loc.explanation,
                              summarizeWithGemini(key, [kind |-> "none"])))
                  ELSE \E o \in GeminiSummarizeOutcomes :
                         /\ Call("summarize:gemini", OpenAIAnswered(o),
                                 summarizeWithGemini(key, o))
                         /\ EndImage(Part1Slide(loc.explanation,
                                                summarizeWithGemini(key, o)))
       \/ /\ Part1Model(req) = "anthropic"
          /\ UNCHANGED googleKey
          /\ \E sm \in ClaudeSummarizeResults :
               /\ Call("summarize:claude", sm \in SummaryTexts, sm)
               /\ EndImage(Part1Slide(loc.explanation, sm))

\* line 111
Part1Respond ==
    /\ impl = "part001"
    /\ pc = "loop"
    /\ i > req.images.len
    /\ Respond([status |-> 200, slides |-> slides, error |-> Empty])

-----------------------------------------------------------------------------
(* analyzeImageWithGemini *)

GeminiExplainOutcomes ==
    {[kind |-> "content", text |-> t] : t \in ExplainTexts \cup {Empty}}
    \cup {[kind |-> "throw", text |-> m] : m \in GeminiErrors}

WaitOps == <<"wait:1s", "wait:2s", "wait:3s", "wait:4s">>

\* the call of analyzeImageWithGemini returns explanation to its caller:
\* processImageWithGemini of route.js (lines 368-379) or the loop of part_001
AnalysisReturns(explanation) ==
    IF impl = "route"
    THEN /\ pc' = IF StartsWith(explanation, GeminiErrorPrefix)
                  THEN "oa_explain" ELSE "gm_summarize"
         /\ loc' = [loc EXCEPT !.explanation = explanation]
         /\ retryCount' = 0
         /\ thrown' = Empty
         /\ UNCHANGED <<slides, pushedFor, i>>
    ELSE IF IsExplanationError(explanation)
    THEN EndImage(Part1ErrorSlide(explanation))
    ELSE /\ pc' = "p1_summarize"
         /\ loc' = [loc EXCEPT !.explanation = explanation]
         /\ retryCount' = 0
         /\ thrown' = Empty
         /\ UNCHANGED <<slides, pushedFor, i>>

\* the catch block of attemptAnalysis
AnalysisFails(msg) ==
    IF ShouldRetry(msg, retryCount)
    THEN /\ retryCount' = retryCount + 1
         /\ pc' = "gm_wait"
         /\ UNCHANGED <<slides, pushedFor, i, loc, thrown>>
    ELSE AnalysisReturns(AnalysisError(msg))

\* one run of attemptAnalysis up to its return or its retry
GeminiAttempt ==
    /\ pc = "gm_attempt"
    /\ UNCHANGED <<impl, req, response, parseIn, parseOut>>
    /\ \E key \in KeyValues :
         /\ googleKey' = key
         /\ IF key = "absent"
            THEN NoCall /\ AnalysisFails(MissingKeyMessage)
            ELSE IF extractBase64FromDataUrl(loc.image) # Empty
            THEN NoCall /\ AnalysisFails(extractBase64FromDataUrl(loc.image))
            ELSE \E o \in GeminiExplainOutcomes :
                   IF o.kind = "throw"
                   THEN /\ Call("explain:gemini", FALSE,
                                IF ShouldRetry(o.text, retryCount) THEN o.text
                                ELSE AnalysisError(o.text))
                        /\ AnalysisFails(o.text)
                   ELSE /\ Call("explain:gemini", TRUE, o.text)
                        /\ AnalysisReturns(o.text)

\* the wait of 1000 * retryCount ms before the next attempt
GeminiWait ==
    /\ pc = "gm_wait"
    /\ pc' = "gm_attempt"
    /\ calls' = Append(calls, Called(WaitOps[retryCount], TRUE, Empty))
    /\ UNCHANGED <<impl, req, i, loc, slides, pushedFor, response, vendorCalled,
                   thrown, googleKey, retryCount, parseIn, parseOut>>

-----------------------------------------------------------------------------
(* The gemini and anthropic branches of route.js *)

\* processImageWithGemini, lines 377-402, and the rest of the loop body
RouteGeminiSummarize ==
    /\ impl = "route"
    /\ pc = "gm_summarize"
    /\ NoCall
    /\ UNCHANGED <<impl, req, response, googleKey, parseIn, parseOut>>
    /\ LET summary == RouteSummarizeWithGemini(loc.caption)
           result  == ProcessResult(loc.explanation, summary)
       IN  IF StartsWith(summary, GeminiSummaryErrorPrefix)
           THEN Goto("oa_summarize", loc)
           ELSE RouteFinish(result.fullExplanation, result.content, result.title)

\* line 71: analyzeImageWithClaude, then line 74
ClaudeExplain ==
    /\ impl = "route"
    /\ pc = "cl_explain"
    /\ UNCHANGED <<impl, req, response, googleKey, parseIn, parseOut>>
    /\ \E e \in ClaudeExplainResults :
         /\ Call("explain:claude", e \in ExplainTexts, e)
         /\ Goto("cl_summarize", [loc EXCEPT !.explanation = e])

\* line 80: summarizeWithClaude, then lines 83-102
ClaudeSummarize ==
    /\ impl = "route"
    /\ pc = "cl_summarize"
    /\ UNCHANGED <<impl, req, response, googleKey, parseIn, parseOut>>
    /\ \E sm \in ClaudeSummarizeResults :
         /\ Call("summarize:claude", sm \in SummaryTexts, sm)
         /\ RouteFinish(loc.explanation, sm, Empty)

-----------------------------------------------------------------------------
(* Specification *)

Next ==
    \/ RouteReadRequest
    \/ RouteBeginImage
    \/ RouteContext
    \/ OpenAIExplain
    \/ OpenAISummarize
    \/ RouteGeminiSummarize
    \/ ClaudeExplain
    \/ ClaudeSummarize
    \/ RouteRespond
    \/ Part1ReadRequest
    \/ Part1Explain
    \/ Part1Summarize
    \/ Part1Respond
    \/ GeminiAttempt
    \/ GeminiWait
    \/ SlidesPush

Spec == Init /\ [][Next]_vars

-----------------------------------------------------------------------------
(* The parser on its own: every text of at most MaxLen characters *)

InitParse ==
    /\ impl = "route"
    /\ req = [body |-> "json", images |-> NoImages, model |-> "absent",
              messages |-> NoList, captions |-> NoList]
    /\ pc = "parse"
    /\ i = 1
    /\ loc = NoLoc
    /\ slides = <<>>
    /\ pushedFor = <<>>
    /\ response = NoResponse
    /\ calls = <<>>
    /\ vendorCalled = FALSE
    /\ thrown = Empty
    /\ googleKey = "unread"
    /\ retryCount = 0
    /\ parseIn \in TextsUpTo(MaxLen)
    /\ parseOut = NoParse

\* parseSummary(summary), and extractTitle(summary) with extractContent(summary)
ParseStep ==
    /\ pc = "parse"
    /\ pc' = "parsed"
    /\ parseOut' = parseSummary(parseIn)
    /\ UNCHANGED <<impl, req, i, loc, slides, pushedFor, response, calls,
                   vendorCalled, thrown, googleKey, retryCount, parseIn>>

NextParse == ParseStep

SpecParse == InitParse /\ [][NextParse]_vars

-----------------------------------------------------------------------------
(* Properties *)

\* the calls of the current iteration that are explain steps
ExplainCalls ==
    SelectSeq(calls, LAMBDA c : c.op \in {"explain:openai", "explain:gemini",
                                          "explain:claude"})

SummarizeOps == {"summarize:openai", "summarize:gemini", "summarize:claude"}

Last(sq) == sq[Len(sq)]

\* the sentinel convention: a text that begins with Error
IsSentinel(text) == StartsWith(text, <<"Error">>)

\* the explain step of the current iteration gave an explanation
ExplainSucceeded ==
    /\ ExplainCalls # <<>>
    /\ Last(ExplainCalls).ok
    /\ Last(ExplainCalls).text \notin {Empty, NoExplanationGenerated}
    /\ ~IsSentinel(Last(ExplainCalls).text)

\* the summarize step of the current iteration was the last call, and it
\* gave a summary
SummarizeSucceeded ==
    /\ calls # <<>>
    /\ Last(calls).op \in SummarizeOps
    /\ Last(calls).ok
    /\ Last(calls).text # Empty
    /\ ~IsSentinel(Last(calls).text)

\* C1: every answer with status 200 carries exactly one slide per image of the
\* request, the slide at position k being the one pushed for image k; a
\* request with a list of images and a known model is answered with status 200
C1_OneSlidePerImageInOrder ==
    /\ pushedFor = [k \in 1..Len(slides) |-> k]
    /\ Len(slides) = i - 1
    /\ i <= req.images.len + 1
    /\ (pc = "done" /\ response.status = 200) =>
           /\ response.slides = slides
           /\ Len(response.slides) = req.images.len
    /\ (/\ pc = "done"
        /\ req.body = "json"
        /\ req.images.kind = "array"
        /\ req.images.len > 0
        /\ req.model \in ValidModels \cup {"absent"}) => response.status = 200

C1_Witness ==
    /\ pc = "done"
    /\ response.status = 200
    /\ req.images.len = 2
    /\ Len(response.slides) = 2
    /\ response.slides[1].title = ErrorProcessingImage
    /\ response.slides[2].title = <<"a">>

\* C2: a request whose images are missing, not an array or an empty array is
\* answered with status 400 and an error text, and no image is processed and
\* no vendor operation is invoked for it
C2_NoImagesIs400 ==
    (req.body = "json" /\ (req.images.kind # "array" \/ req.images.len = 0)) =>
        /\ pc \in {"start", "done"}
        /\ ~vendorCalled
        /\ calls = <<>>
        /\ slides = <<>>
        /\ pc = "done" => (response.status = 400 /\ response.error # Empty)

C2_Witness ==
    /\ pc = "done"
    /\ req.body = "json"
    /\ req.images.kind = "array"
    /\ req.images.len = 0
    /\ response.status = 400
    /\ response.error = NoImagesProvided

\* C3: a request with images whose model is none of openai, gemini and
\* anthropic is answered with status 400 and an error text, and no image of
\* it is processed
C3_InvalidModelIs400 ==
    (/\ req.body = "json"
     /\ req.images.kind = "array"
     /\ req.images.len > 0
     /\ req.model \notin ValidModels \cup {"absent"}) =>
        /\ pc \in {"start", "done"}
        /\ slides = <<>>
        /\ pc = "done" => (response.status = 400 /\ response.error # Empty)

\* C4: when the explain step for an image ends with an error sentinel (a text
\* that begins with Error), the slide built for that image has the title
\* "Error Processing Image"
C4_ExplainErrorGivesErrorSlide ==
    (/\ pc = "push"
     /\ ExplainCalls # <<>>
     /\ IsSentinel(Last(ExplainCalls).text)) =>
        loc.slide.title = ErrorProcessingImage

\* C5: when the explain step for an image succeeded and its summarize step
\* failed, the slide built for that image has the title "Error Creating
\* Slide" and carries the explanation unchanged
C5_SummarizeErrorGivesRawExplanation ==
    (/\ pc = "push"
     /\ ExplainSucceeded
     /\ Last(calls).op \in SummarizeOps
     /\ (~Last(calls).ok \/ IsSentinel(Last(calls).text))) =>
        /\ loc.slide.title = ErrorCreatingSlide
        /\ loc.slide.fullExplanation = Last(ExplainCalls).text

\* C6: when the model is gemini, the Gemini explain step of an image gave a
\* Gemini error sentinel and the OpenAI explain and summarize steps of that
\* image both succeeded, the slide built for the image is a normal slide whose
\* title and content are the parse of the OpenAI summary
C6_FallbackGivesNormalSlide ==
    (/\ pc = "push"
     /\ req.model = "gemini"
     /\ \E k \in 1..Len(calls) :
          calls[k].op = "explain:gemini"
          /\ StartsWith(calls[k].text, GeminiErrorPrefix)
     /\ Last(ExplainCalls).op = "explain:openai"
     /\ ExplainSucceeded
     /\ Last(calls).op = "summarize:openai"
     /\ SummarizeSucceeded) =>
        /\ loc.slide.title \notin {ErrorProcessingImage, ErrorCreatingSlide}
        /\ loc.slide.title = parseSummary(Last(calls).text).title
        /\ loc.slide.content = parseSummary(Last(calls).text).content

\* C7: the slide for image k carries messages[k] as originalMessage and
\* captions[k] as originalCaption when the request supplies them, and the
\* empty text when it does not
C7_MessageCaptionPassThrough ==
    \A k \in 1..Len(slides) :
        /\ "originalMessage" \in DOMAIN slides[k]
        /\ "originalCaption" \in DOMAIN slides[k]
        /\ slides[k].originalMessage =
              (IF k <= Len(req.messages.items) THEN req.messages.items[k]
               ELSE Empty)
        /\ slides[k].originalCaption =
              (IF k <= Len(req.captions.items) THEN req.captions.items[k]
               ELSE Empty)

\* the first position of the text where a line begins with #, 0 if none
FirstHeadingLine(s) ==
    LET ps == {p \in 1..Len(s) : AtLineStart(s, p) /\ s[p] = "#"}
    IN  IF ps = {} THEN 0 ELSE Min(ps)

\* C8: the title is the trimmed text after # on the first line that begins
\* with #, or "Untitled Slide" when no line does; the content is the text
\* without that one line, trimmed
C8_TitleAndContentOfFirstHeadingLine ==
    pc = "parsed" =>
        LET p == FirstHeadingLine(parseIn)
            e == LineEnd(parseIn, p)
        IN  IF p = 0
            THEN /\ parseOut.title = UntitledSlide
                 /\ parseOut.content = Trim(parseIn)
            ELSE /\ parseOut.title = Trim(SubSeq(parseIn, p + 1, e))
                 /\ parseOut.content =
                       Trim(SubSeq(parseIn, 1, p - 1)
                            \o SubSeq(parseIn, e + 1, Len(parseIn)))

\* C9: when the explain step gave the explanation E and the summarize step
\* the summary S, a heading line alone included, the slide built for the
\* image has fullExplanation E, the parsed title of S and the parsed content
\* of S
C9_SuccessSlideIsParseOfSummary ==
    (/\ pc = "push"
     /\ ExplainSucceeded
     /\ SummarizeSucceeded) =>
        /\ loc.slide.fullExplanation = Last(ExplainCalls).text
        /\ loc.slide.title = parseSummary(Last(calls).text).title
        /\ loc.slide.content = parseSummary(Last(calls).text).content

\* C10: an exception thrown while image i is processed ends in an error slide
\* for position i that carries the message of the exception; the outer catch
\* (status 500) is reached before the loop only, and an answer with status
\* 200 has a slide for every image
C10_ExceptionsStayInTheIteration ==
    /\ thrown # Empty =>
           /\ pc = "push"
           /\ Len(slides) = i - 1
           /\ loc.slide.title = ErrorProcessingImage
           /\ \/ Includes(loc.slide.content, thrown)
              \/ Includes(loc.slide.fullExplanation, thrown)
    /\ (pc = "done" /\ response.status = 500) =>
           (req.body \in {"invalid", "null"} /\ slides = <<>> /\ i = 1)
    /\ (pc = "done" /\ response.status = 200) =>
           Len(response.slides) = req.images.len

C10_Witness ==
    /\ pc = "done"
    /\ response.status = 200
    /\ req.images.len = 2
    /\ response.slides[1].title = ErrorProcessingImage
    /\ Includes(response.slides[1].fullExplanation, Boom)
    /\ response.slides[2].title # ErrorProcessingImage

\* C11: an answer has status 200, 400 or 500; once the loop over the images
\* has begun the status is 200 whatever the vendors did; status 500 is the
\* answer to an exception raised before the loop (reading the body) only, and
\* then the answer carries the message of the exception and no slide
C11_StatusIs200OnceValidated ==
    pc = "done" =>
        /\ response.status \in {200, 400, 500}
        /\ (vendorCalled \/ slides # <<>> \/ i > 1) => response.status = 200
        /\ req.body = "json" => response.status \in {200, 400}
        /\ response.status = 400 => (slides = <<>> /\ ~vendorCalled)
        /\ response.status = 500 =>
              /\ req.body \in {"invalid", "null"}
              /\ response.slides = <<>>
              /\ \/ Includes(response.error, JsonError)
                 \/ Includes(response.error, NullDestructure)

C11_Witness ==
    /\ pc = "done"
    /\ response.status = 200
    /\ vendorCalled
    /\ Len(response.slides) = 2
    /\ response.slides[1].title = ErrorProcessingImage
    /\ response.slides[2].title = ErrorProcessingImage

\* the k-th call of the current iteration is an attempt that
\* analyzeImageWithGemini retries: the operation has not returned yet
IsRetriedAttempt(k) ==
    /\ calls[k].op = "explain:gemini"
    /\ \/ k < Len(calls) /\ calls[k + 1].op \in {WaitOps[w] : w \in 1..Len(WaitOps)}
       \/ k = Len(calls) /\ pc = "gm_wait"

\* C12: when the vendor call of explainWithOpenAI, summarizeWithOpenAI,
\* analyzeImageWithGemini or summarizeWithGemini fails, the operation returns
\* a text that begins with Error (it neither throws nor returns another text)
C12_AdapterFailuresAreSentinels ==
    \A k \in 1..Len(calls) :
        (/\ calls[k].op \in {"explain:openai", "summarize:openai",
                              "explain:gemini", "summarize:gemini"}
         /\ ~calls[k].ok
         /\ ~IsRetriedAttempt(k)) => IsSentinel(calls[k].text)

\* the attempts and the waits of analyzeImageWithGemini for the current image
GeminiAttempts == SelectSeq(calls, LAMBDA c : c.op = "explain:gemini")

IsWait(c) == c.op \in {WaitOps[w] : w \in 1..Len(WaitOps)}

GeminiWaits == SelectSeq(calls, IsWait)

\* a transient network error, by its message
IsTransient(msg) ==
    \/ Includes(msg, <<"fetch", SP, "failed">>)
    \/ Includes(msg, <<"network">>)
    \/ Includes(msg, <<"timeout">>)
    \/ Includes(msg, <<"ECONNRESET">>)
    \/ Includes(msg, <<"ETIMEDOUT">>)

\* C13: one call of analyzeImageWithGemini makes at most 3 attempts and 2
\* retries; the k-th retry comes after a wait of k seconds; an attempt is
\* retried only when it failed with a transient network error and fewer than
\* 2 retries were made, so any other failure ends the call
C13_GeminiRetries ==
    /\ Len(GeminiAttempts) <= 3
    /\ Len(GeminiWaits) <= 2
    /\ retryCount <= 2
    /\ \A k \in 1..Len(GeminiWaits) : GeminiWaits[k].op = WaitOps[k]
    /\ \A k \in 1..Len(calls) :
         /\ IsWait(calls[k]) =>
               /\ k > 1
               /\ calls[k - 1].op = "explain:gemini"
               /\ ~calls[k - 1].ok
               /\ IsTransient(calls[k - 1].text)
               /\ Len(SelectSeq(SubSeq(calls, 1, k - 1), IsWait)) < 2
         /\ (calls[k].op = "explain:gemini"
             /\ \E j \in 1..(k - 1) : calls[j].op = "explain:gemini") =>
               IsWait(calls[k - 1])
    /\ pc = "gm_wait" =>
          (calls # <<>> /\ Last(calls).op = "explain:gemini"
           /\ ~Last(calls).ok /\ IsTransient(Last(calls).text))
    /\ pc = "gm_attempt" => Len(GeminiWaits) = Len(GeminiAttempts)

C13_Witness ==
    /\ Len(GeminiAttempts) = 3
    /\ Len(GeminiWaits) = 2
    /\ Last(calls).op = "explain:gemini"
    /\ ~Last(calls).ok
    /\ pc # "gm_wait"

-----------------------------------------------------------------------------
(* summarizeWithGemini on its own: its three revisions, on vendor texts of   *)
(* every length up to MaxSummaryLen.  The atoms of these texts are single    *)
(* characters, so Len is summary.length.                                     *)

ShortSummaryLength == 50

\* the text returned for a summary that is too short
ShortSummaryFallback(caption) ==
    AnalysisHeading \o <<NL, NL>> \o AppearsToShow(caption) \o <<NL, NL>>
    \o <<"- The image contains elements that would be explained in more detail with proper AI analysis.",
         NL,
         "- Unfortunately, the AI generated a limited response.",
         NL,
         "- The image appears to be a", SP>>
    \o (IF caption = Empty THEN <<"visual that requires further analysis">>
        ELSE caption)
    \o <<".", NL, NL, "Try selecting a different AI model for better results.">>

\* summarizeWithGemini of part_002, given the key and the vendor's answer
Part2SummarizeWithGemini(key, outcome, caption) ==
    IF key = "absent" THEN GeminiFallbackSummary(caption, MissingKeyMessage)
    ELSE IF outcome.kind = "throw" THEN GeminiFallbackSummary(caption, outcome.text)
    ELSE IF Len(outcome.text) < ShortSummaryLength
    THEN ShortSummaryFallback(caption)
    ELSE outcome.text

VendorSummary(n) ==
    [k \in 1..n |-> IF k = 1 THEN "#" ELSE IF k = 2 THEN SP ELSE "a"]

SummarizeImpls == {"route", "gemini.js", "part002"}

InitSummarize ==
    /\ impl \in SummarizeImpls
    /\ req = [body |-> "json", images |-> NoImages, model |-> "gemini",
              messages |-> NoList, captions |-> NoList]
    /\ pc = "summarize"
    /\ i = 1
    /\ \E c \in {Empty, <<"a", SP, "cat">>} : loc = [NoLoc EXCEPT !.caption = c]
    /\ slides = <<>>
    /\ pushedFor = <<>>
    /\ response = NoResponse
    /\ calls = <<>>
    /\ vendorCalled = FALSE
    /\ thrown = Empty
    /\ googleKey \in {"set", "absent"}
    /\ retryCount = 0
    /\ parseIn \in {VendorSummary(n) : n \in 0..MaxSummaryLen}
    /\ parseOut = NoParse

\* one call of summarizeWithGemini(explanation, message, caption); the vendor
\* answers with the text parseIn or the call fails
SummarizeStep ==
    /\ pc = "summarize"
    /\ pc' = "summarized"
    /\ UNCHANGED <<impl, req, i, loc, slides, pushedFor, response, thrown,
                   googleKey, retryCount, parseIn>>
    /\ \E o \in {[kind |-> "content", text |-> parseIn],
                  [kind |-> "throw", text |-> Boom]} :
         LET result ==
               IF impl = "gemini.js" THEN summarizeWithGemini(googleKey, o)
               ELSE Part2SummarizeWithGemini(googleKey, o, loc.caption)
         IN  IF impl = "route"
             THEN NoCall /\ parseOut' = RouteSummarizeWithGemini(loc.caption)
             ELSE IF googleKey = "absent"
             THEN NoCall /\ parseOut' = result
             ELSE /\ Call("summarize:gemini", o.kind = "content", result)
                  /\ parseOut' = result

NextSummarize == SummarizeStep

SpecSummarize == InitSummarize /\ [][NextSummarize]_vars

\* C14: when the vendor call of summarizeWithGemini came back, the operation
\* returns the canned body (heading "# Analysis of the Image", built from the
\* caption) for a text of fewer than 50 characters, and the text itself for a
\* text of 50 characters or more
C14_ShortGeminiSummaryIsReplaced ==
    (pc = "summarized" /\ calls # <<>> /\ Last(calls).ok) =>
        IF Len(parseIn) < 50
        THEN /\ StartsWith(parseOut, AnalysisHeading)
             /\ Includes(parseOut, AppearsToShow(loc.caption))
        ELSE parseOut = parseIn

\* the operations called so far for the current image, in order
CallOps == [k \in 1..Len(calls) |-> calls[k].op]

IsPrefix(p, sq) == Len(p) <= Len(sq) /\ p = SubSeq(sq, 1, Len(p))

\* C15: a request without a model field is processed as the request with
\* model "openai": it is validated alike, only the OpenAI operations are
\* called, in the order of the openai path, no Gemini key is read, and the
\* slide built from the answers of the vendor is the one the openai path
\* builds from them
C15_AbsentModelIsOpenAI ==
    req.model = "absent" =>
        /\ RouteModel(req) = "openai" /\ Part1Model(req) = "openai"
        /\ pc \notin {"gm_attempt", "gm_wait", "gm_summarize", "cl_explain",
                      "cl_summarize"}
        /\ googleKey = "unread"
        /\ IsPrefix(CallOps,
                    IF impl = "route"
                    THEN <<"describe:openai", "explain:openai", "summarize:openai">>
                    ELSE <<"explain:openai", "summarize:openai">>)
        /\ (pc = "done" /\ response.status = 400) =>
              response.error = NoImagesProvided
        /\ (impl = "route" /\ pc = "push" /\ Len(calls) = 3) =>
              LET result == ProcessResult(calls[2].text, calls[3].text)
                  msg == RouteThrown(result.fullExplanation, result.content,
                                     "openai")
              IN  /\ thrown = msg
                  /\ loc.slide =
                        IF msg # Empty THEN CatchSlide(msg)
                        ELSE RouteSlide(result.fullExplanation, result.content,
                                        result.title, loc.message, loc.caption)
        /\ (impl = "part001" /\ pc = "push" /\ Len(calls) = 2 /\ thrown = Empty) =>
              loc.slide = Part1Slide(calls[1].text, calls[2].text)

C15_Witness ==
    /\ req.model = "absent"
    /\ pc = "done"
    /\ response.status = 200
    /\ Len(response.slides) = 1
    /\ response.slides[1].title = <<"a">>
    /\ response.slides[1].fullExplanation = <<"e">>

\* what analyzeImageWithGemini returns when the key is missing
MissingKeySentinel ==
    GeminiErrorPrefix \o <<SP>>
    \o <<"Invalid or missing API key. Please check your environment variables.">>

GeminiOps == {"describe:gemini", "explain:gemini", "summarize:gemini"}

InvalidDataUrlSentinel == GeminiErrorPrefix \o <<SP>> \o InvalidDataUrl

\* C17: the explain operation of the Gemini adapter, given a malformed
\* data-URL, throws to its caller: it never hands the caller an error string
\* as the explanation of that image
C17_MalformedDataUrlIsThrown ==
    (RouteModel(req) = "gemini" /\ googleKey = "set" /\ loc.image = "malformed") =>
        /\ loc.explanation # InvalidDataUrlSentinel
        /\ (pc = "push" /\ impl = "part001") => thrown # Empty

-----------------------------------------------------------------------------
(* extractBase64FromDataUrl on its own: every string of at most MaxUrlLen
   atoms, the empty string and a missing argument *)

DataColon == "data:"
Base64Mark == ";base64,"
SEMI == ";"

\* "a" stands for any character other than ';' and a line terminator
UrlChars == {DataColon, Base64Mark, SEMI, "a", NL}

JsNull == [null |-> TRUE, text |-> Empty]

JsString(t) == [null |-> FALSE, text |-> t]

\* dataUrl.includes(';base64,')
IncludesBase64Mark(t) == \E k \in 1..Len(t) : t[k] = Base64Mark

\* the position where ([^;]+) has to stop: the first ';' after "data:"
RECURSIVE FirstSemi(_, _)
FirstSemi(t, k) ==
    IF k > Len(t) THEN 0
    ELSE IF t[k] \in {SEMI, Base64Mark} THEN k
    ELSE FirstSemi(t, k + 1)

\* dataUrl.match(/^data:([^;]+);base64,(.+)$/): the position of ";base64,"
\* in the match, 0 without a match; '.' matches no line terminator and '$'
\* is the end of the input
DataUrlMatch(t) ==
    IF Len(t) < 4 \/ t[1] # DataColon THEN 0
    ELSE LET k == FirstSemi(t, 2)
         IN  IF /\ k > 2
                /\ t[k] = Base64Mark
                /\ k < Len(t)
                /\ \A j \in (k + 1)..Len(t) : t[j] # NL
             THEN k ELSE 0

ExtractBase64(arg) ==
    IF ~arg.given \/ arg.text = Empty
    THEN [kind |-> "return", data |-> JsNull, mimeType |-> JsNull,
          message |-> Empty]
    ELSE IF ~IncludesBase64Mark(arg.text)
    THEN [kind |-> "return", data |-> JsString(arg.text),
          mimeType |-> JsString(<<"image/jpeg">>), message |-> Empty]
    ELSE LET k == DataUrlMatch(arg.text)
         IN  IF k = 0
             THEN [kind |-> "throw", data |-> JsNull, mimeType |-> JsNull,
                   message |-> InvalidDataUrl]
             ELSE [kind |-> "return",
                   data |-> JsString(SubSeq(arg.text, k + 1, Len(arg.text))),
                   mimeType |-> JsString(SubSeq(arg.text, 2, k - 1)),
                   message |-> Empty]

UrlArgs ==
    {[given |-> FALSE, text |-> Empty]}
    \cup {[given |-> TRUE, text |-> t] :
            t \in UNION {[1..k -> UrlChars] : k \in 0..MaxUrlLen}}

InitExtract ==
    /\ impl = "gemini.js"
    /\ req = [body |-> "json", images |-> NoImages, model |-> "gemini",
              messages |-> NoList, captions |-> NoList]
    /\ pc = "extract"
    /\ i = 1
    /\ loc = NoLoc
    /\ slides = <<>>
    /\ pushedFor = <<>>
    /\ response = NoResponse
    /\ calls = <<>>
    /\ vendorCalled = FALSE
    /\ thrown = Empty
    /\ googleKey = "unread"
    /\ retryCount = 0
    /\ parseIn \in UrlArgs
    /\ parseOut = NoParse

\* one call of extractBase64FromDataUrl(dataUrl)
ExtractStep ==
    /\ pc = "extract"
    /\ pc' = "extracted"
    /\ parseOut' = ExtractBase64(parseIn)
    /\ UNCHANGED <<impl, req, i, loc, slides, pushedFor, response, calls,
                   vendorCalled, thrown, googleKey, retryCount, parseIn>>

SpecExtract == InitExtract /\ [][ExtractStep]_vars

\* "data:" + M + ";base64," + D with M non-empty and free of ';' and D
\* non-empty: the position of the ";base64," that ends M
IsDataUrlSplit(t, k) ==
    /\ k \in 3..(Len(t) - 1)
    /\ t[1] = DataColon
    /\ t[k] = Base64Mark
    /\ \A j \in 2..(k - 1) : t[j] \notin {SEMI, Base64Mark}

\* C18: extractBase64FromDataUrl returns {mimeType: M, data: D} for
\* "data:" + M + ";base64," + D (M non-empty without ';', D non-empty), the
\* whole input with image/jpeg for a non-empty input without ";base64,", and
\* null for both fields, without throwing, for an empty or missing input
C18_ExtractBase64FromDataUrl ==
    pc = "extracted" =>
        /\ \A k \in 1..Len(parseIn.text) :
              IsDataUrlSplit(parseIn.text, k) =>
                  /\ parseOut.kind = "return"
                  /\ parseOut.mimeType = JsString(SubSeq(parseIn.text, 2, k - 1))
                  /\ parseOut.data =
                        JsString(SubSeq(parseIn.text, k + 1, Len(parseIn.text)))
        /\ (parseIn.text # Empty /\ \A k \in 1..Len(parseIn.text) :
                                       parseIn.text[k] # Base64Mark) =>
              /\ parseOut.kind = "return"
              /\ parseOut.data = JsString(parseIn.text)
              /\ parseOut.mimeType = JsString(<<"image/jpeg">>)
        /\ (~parseIn.given \/ parseIn.text = Empty) =>
              /\ parseOut.kind = "return"
              /\ parseOut.data = JsNull
              /\ parseOut.mimeType = JsNull

-----------------------------------------------------------------------------

\* the explain calls of the current image made before call k
ExplainsBefore(k) ==
    SelectSeq(SubSeq(calls, 1, k - 1),
              LAMBDA c : c.op \in {"explain:openai", "explain:gemini",
                                    "explain:claude"})

ErrorTitles == {ErrorProcessingImage, ErrorCreatingSlide}

\* C19: summarize is invoked for an image only after an explain call for that
\* image came back with an explanation that is no error sentinel, and every
\* image ends with one slide, an error slide or a slide made from a summary
C19_ImageStateMachine ==
    /\ \A k \in 1..Len(calls) :
          calls[k].op \in SummarizeOps =>
              /\ ExplainsBefore(k) # <<>>
              /\ ~IsSentinel(Last(ExplainsBefore(k)).text)
    /\ pc = "push" =>
          /\ loc.slide # NoSlide
          /\ Len(slides) = i - 1
          /\ loc.slide.title \in ErrorTitles => loc.slide.content # Empty

\* C20: the handler awaits every vendor call before it makes the next one, so
\* a step starts at most one call, after all the earlier calls of the image
\* came back; and a call for image i is made only when the slides of the
\* images 1..i-1 are in the slide list and image i has no slide yet
C20_OneVendorCallAtATime ==
    [][(calls' # calls /\ calls' # <<>>) =>
          /\ Len(calls') = Len(calls) + 1
          /\ SubSeq(calls', 1, Len(calls)) = calls
          /\ i \in 1..req.images.len
          /\ Len(slides) = i - 1
          /\ pushedFor = [k \in 1..(i - 1) |-> k]
          /\ loc.slide = NoSlide
          /\ UNCHANGED <<slides, pushedFor, i>>]_vars

C20_Witness ==
    /\ i = 2
    /\ Len(slides) = 1
    /\ pushedFor = <<1>>
    /\ Len(calls) >= 2
    /\ calls[1].ok
    /\ pc # "push"

-----------------------------------------------------------------------------
(* The fallback of processImageWithGemini *)

\* analyzeImageWithGemini ran for the current image of a gemini request and
\* returned one of its error strings
GeminiExplainFailed ==
    /\ impl = "route"
    /\ RouteModel(req) = "gemini"
    /\ loc.image \in {"dataurl", "malformed"}
    /\ pc \in {"oa_explain", "oa_summarize", "push"}
    /\ \/ googleKey = "absent"
       \/ loc.image = "malformed"
       \/ GeminiAttempts # <<>> /\ ~Last(GeminiAttempts).ok

OpenAIExplains == SelectSeq(calls, LAMBDA c : c.op = "explain:openai")

\* C21: after analyzeImageWithGemini failed for an image, no Gemini summarize
\* call is made for it, OpenAI is asked for the explanation and the summary,
\* and the slide carries the OpenAI explanation, never the Gemini error string
C21_GeminiFailureFallsBackToOpenAI ==
    GeminiExplainFailed =>
        /\ \A k \in 1..Len(calls) : calls[k].op # "summarize:gemini"
        /\ pc = "push" =>
              /\ Len(OpenAIExplains) = 1
              /\ Last(calls).op = "summarize:openai"
              /\ loc.slide.fullExplanation = OpenAIExplains[1].text
              /\ ~StartsWith(loc.slide.fullExplanation, GeminiErrorPrefix)

OpsOf(provider) ==
    {"describe:" \o provider, "explain:" \o provider, "summarize:" \o provider}

\* analyzeImageWithGemini was the first explain operation of the current image
GeminiTriedFirst ==
    \/ googleKey = "absent"
    \/ loc.image = "malformed"
    \/ ExplainCalls # <<>> /\ ExplainCalls[1].op = "explain:gemini"

\* C22: in a gemini request OpenAI is asked about an image only after
\* analyzeImageWithGemini was tried for that same image, whatever happened to
\* the images before it; an openai request calls only OpenAI operations and
\* an anthropic request only Claude operations
C22_FallbackIsPerImage ==
    /\ RouteModel(req) = "openai" =>
          /\ googleKey = "unread"
          /\ \A k \in 1..Len(calls) : calls[k].op \in OpsOf("openai")
    /\ RouteModel(req) = "anthropic" =>
          /\ googleKey = "unread"
          /\ \A k \in 1..Len(calls) : calls[k].op \in OpsOf("claude")
    /\ (RouteModel(req) = "gemini" /\ impl = "part001") =>
          \A k \in 1..Len(calls) : IsWait(calls[k]) \/ calls[k].op \in OpsOf("gemini")
    /\ (/\ RouteModel(req) = "gemini"
        /\ impl = "route"
        /\ \/ pc \in {"oa_explain", "oa_summarize"}
           \/ \E k \in 1..Len(calls) : calls[k].op \in OpsOf("openai")) =>
          GeminiTriedFirst

\* image 1 of a gemini request fell back to OpenAI (only explainWithOpenAI
\* returns No explanation generated) and image 2 is explained by Gemini
C22_Witness ==
    /\ impl = "route"
    /\ req.model = "gemini"
    /\ i = 2
    /\ Len(slides) = 1
    /\ slides[1].fullExplanation = NoExplanationGenerated
    /\ ExplainCalls # <<>>
    /\ Last(ExplainCalls).op = "explain:gemini"
    /\ Last(ExplainCalls).ok
    /\ pc = "gm_summarize"

\* C23: when analyzeImageWithGemini failed for an image and the fallback
\* explainWithOpenAI returned its failure string, no summarize call is made
\* for the image and its slide has the title Error Processing Image and the
\* failure string as fullExplanation
C23_DoubleExplainFailureGivesErrorSlide ==
    (/\ GeminiExplainFailed
     /\ OpenAIExplains # <<>>
     /\ Last(OpenAIExplains).text = ErrorGeneratingExplanation) =>
        /\ \A k \in 1..Len(calls) : calls[k].op \notin SummarizeOps
        /\ pc = "push" =>
              /\ loc.slide.title = ErrorProcessingImage
              /\ loc.slide.fullExplanation = ErrorGeneratingExplanation

-----------------------------------------------------------------------------
(* Termination: the handler goes on whenever the call it awaits has come
   back, which every step of the model stands for *)

\* weak fairness of every step; for RouteGeminiSummarize the enabling
\* condition is written out: the action is enabled exactly when the handler
\* is at that await
Fairness ==
    /\ WF_vars(RouteReadRequest)
    /\ WF_vars(RouteBeginImage)
    /\ WF_vars(RouteContext)
    /\ WF_vars(OpenAIExplain)
    /\ WF_vars(OpenAISummarize)
    /\ WF_vars(ClaudeExplain)
    /\ WF_vars(ClaudeSummarize)
    /\ WF_vars(RouteRespond)
    /\ WF_vars(Part1ReadRequest)
    /\ WF_vars(Part1Explain)
    /\ WF_vars(Part1Summarize)
    /\ WF_vars(Part1Respond)
    /\ WF_vars(GeminiAttempt)
    /\ WF_vars(GeminiWait)
    /\ WF_vars(SlidesPush)
    /\ \/ []<>~(impl = "route" /\ pc = "gm_summarize")
       \/ []<><<RouteGeminiSummarize>>_vars

SpecLive == Init /\ [][Next]_vars /\ Fairness

VendorCalls == SelectSeq(calls, LAMBDA c : ~IsWait(c))

\* C24: every request is answered, and answered once; for one image there
\* are at most MAX_RETRIES + 1 calls of Gemini explain, at most one fallback
\* to explainWithOpenAI and at most MAX_RETRIES + 4 vendor calls in all
C24_EveryRequestIsAnswered ==
    /\ <>(pc = "done" /\ response # NoResponse)
    /\ [](/\ Len(GeminiAttempts) <= MAX_RETRIES + 1
          /\ Len(OpenAIExplains) <= 1
          /\ Len(VendorCalls) <= MAX_RETRIES + 4)
    /\ [][response' # response => (response = NoResponse /\ pc' = "done")]_vars

\* a gemini request of MaxImages images was answered after a fallback
C24_Witness ==
    /\ pc = "done"
    /\ impl = "route"
    /\ req.model = "gemini"
    /\ response.status = 200
    /\ Len(response.slides) = MaxImages
    /\ response.slides[1].fullExplanation = NoExplanationGenerated

\* analyzeImageWithGemini gave the explanation of the current image, so
\* processImageWithGemini went on to summarizeWithGemini, which in route.js
\* fails on every call
GeminiSummarizeFailed ==
    /\ impl = "route"
    /\ RouteModel(req) = "gemini"
    /\ pc = "push"
    /\ ExplainCalls # <<>>
    /\ Last(ExplainCalls).op = "explain:gemini"
    /\ Last(ExplainCalls).ok
    /\ Last(ExplainCalls).text # Empty

\* C25: when Gemini explained the image and the Gemini summarize step
\* failed, the summary comes from summarizeWithOpenAI and the slide keeps the
\* Gemini explanation as fullExplanation
C25_GeminiSummarizeFailureUsesOpenAI ==
    GeminiSummarizeFailed =>
        /\ Last(calls).op = "summarize:openai"
        /\ loc.slide.fullExplanation = Last(ExplainCalls).text

-----------------------------------------------------------------------------
(* Requests in flight together.  Two gemini requests are handled by one
   process and interleave at their awaits.  Every variable of the handler
   is held once per request: pc, i, loc, req and response are functions of
   the request, and slides and retryCount are families of cells, one cell for
   each evaluation of the declaration that creates it. *)

Procs == {1, 2}

\* const slides = [] of POST (route.js line 27) is evaluated once per request:
\* the cell a request pushes to
SlideListOf(p) == p

\* let retryCount = 0 of analyzeImageWithGemini (gemini.js line 132) is
\* evaluated once per call: the cell the call of request p counts in
RetryCounterOfMutModuleLevel(p) == 1

RetryCounterOf(p) == p

\* the slide made for image k of request p
ConcSlide(p, k) == [owner |-> p, image |-> k]

InitConc ==
    /\ impl = "route"
    /\ req \in [Procs -> {[body |-> "json", images |-> [kind |-> "array", len |-> n],
                           model |-> "gemini", messages |-> NoList,
                           captions |-> NoList] : n \in 1..MaxImages}]
    /\ pc = [p \in Procs |-> "start"]
    /\ i = [p \in Procs |-> 1]
    /\ loc = [p \in Procs |-> [attempts |-> 0, result |-> "none"]]
    /\ slides = [p \in Procs |-> <<>>]
    /\ pushedFor = <<>>
    /\ response = [p \in Procs |-> NoResponse]
    /\ calls = <<>>
    /\ vendorCalled = FALSE
    /\ thrown = Empty
    /\ googleKey = "set"
    /\ retryCount = [p \in Procs |-> 0]
    /\ parseIn = Empty
    /\ parseOut = NoParse

\* POST up to the loop: the request is valid, its slide list is created
ConcReadRequest(p) ==
    /\ pc[p] = "start"
    /\ pc' = [pc EXCEPT ![p] = "loop"]
    /\ slides' = [slides EXCEPT ![SlideListOf(p)] = <<>>]
    /\ UNCHANGED <<i, loc, response, retryCount>>

\* the loop takes image i and calls analyzeImageWithGemini, which sets up
\* its retry counter
ConcBeginImage(p) ==
    /\ pc[p] = "loop"
    /\ i[p] <= req[p].images.len
    /\ pc' = [pc EXCEPT ![p] = "gm_attempt"]
    /\ retryCount' = [retryCount EXCEPT ![RetryCounterOf(p)] = 0]
    /\ loc' = [loc EXCEPT ![p] = [attempts |-> 0, result |-> "none"]]
    /\ UNCHANGED <<i, slides, response>>

\* one run of attemptAnalysis: the vendor answers, or the call fails and the
\* catch block retries or returns
ConcAttempt(p) ==
    /\ pc[p] = "gm_attempt"
    /\ UNCHANGED <<i, slides, response>>
    /\ \/ /\ pc' = [pc EXCEPT ![p] = "push"]
          /\ loc' = [loc EXCEPT ![p] = [attempts |-> @.attempts + 1,
                                         result |-> "text"]]
          /\ UNCHANGED retryCount
       \/ \E msg \in {FetchFailed, Boom} :
            IF ShouldRetry(msg, retryCount[RetryCounterOf(p)])
            THEN /\ retryCount' = [retryCount EXCEPT ![RetryCounterOf(p)] = @ + 1]
                 /\ pc' = [pc EXCEPT ![p] = "gm_wait"]
                 /\ loc' = [loc EXCEPT ![p].attempts = @ + 1]
            ELSE /\ pc' = [pc EXCEPT ![p] = "push"]
                 /\ loc' = [loc EXCEPT ![p] = [attempts |-> @.attempts + 1,
                                                result |-> IF msg = FetchFailed
                                                           THEN "network"
                                                           ELSE "other"]]
                 /\ UNCHANGED retryCount

\* the wait before the next attempt
ConcWait(p) ==
    /\ pc[p] = "gm_wait"
    /\ pc' = [pc EXCEPT ![p] = "gm_attempt"]
    /\ UNCHANGED <<i, loc, slides, response, retryCount>>

\* slides.push(...) for image i
ConcPush(p) ==
    /\ pc[p] = "push"
    /\ slides' = [slides EXCEPT ![SlideListOf(p)] = Append(@, ConcSlide(p, i[p]))]
    /\ i' = [i EXCEPT ![p] = @ + 1]
    /\ pc' = [pc EXCEPT ![p] = "loop"]
    /\ UNCHANGED <<loc, response, retryCount>>

\* the answer of the request: its slide list
ConcRespond(p) ==
    /\ pc[p] = "loop"
    /\ i[p] > req[p].images.len
    /\ response' = [response EXCEPT ![p] = [status |-> 200,
                                            slides |-> slides[SlideListOf(p)],
                                            error |-> Empty]]
    /\ pc' = [pc EXCEPT ![p] = "done"]
    /\ UNCHANGED <<i, loc, slides, retryCount>>

NextConc ==
    /\ UNCHANGED <<impl, req, pushedFor, calls, vendorCalled, thrown, googleKey,
                   parseIn, parseOut>>
    /\ \E p \in Procs :
         \/ ConcReadRequest(p)
         \/ ConcBeginImage(p)
         \/ ConcAttempt(p)
         \/ ConcWait(p)
         \/ ConcPush(p)
         \/ ConcRespond(p)

SpecConc == InitConc /\ [][NextConc]_vars

\* C26: with requests interleaved at their awaits, every response holds the
\* slides of its own request's images in order, and every call of
\* analyzeImageWithGemini makes at most MAX_RETRIES + 1 attempts and gives up
\* on a network failure only after MAX_RETRIES + 1 attempts
C26_ConcurrentRequestsAreIsolated ==
    \A p \in Procs :
        /\ pc[p] = "done" =>
              response[p].slides = [k \in 1..req[p].images.len |-> ConcSlide(p, k)]
        /\ loc[p].attempts <= MAX_RETRIES + 1
        /\ (pc[p] = "push" /\ loc[p].result = "network") =>
              loc[p].attempts = MAX_RETRIES + 1
        /\ pc[p] = "gm_wait" => retryCount[p] = loc[p].attempts

\* two calls are in their retry loops at once, each at its own count, while
\* request 1 already has a slide in its list
C26_Witness ==
    /\ pc[1] = "gm_wait"
    /\ pc[2] = "gm_wait"
    /\ loc[1].attempts = 2
    /\ loc[2].attempts = 1
    /\ i[1] = 2
    /\ i[2] = 1

-----------------------------------------------------------------------------

SlideFields ==
    {"title", "content", "fullExplanation", "originalMessage", "originalCaption"}

\* C27: every slide of an answer with status 200 has the five fields title,
\* content, fullExplanation, originalMessage and originalCaption, each of
\* them a string
C27_SlidesHaveFiveStringFields ==
    (pc = "done" /\ response.status = 200) =>
        \A k \in 1..Len(response.slides) :
            /\ DOMAIN response.slides[k] = SlideFields
            /\ \A f \in DOMAIN response.slides[k] :
                  response.slides[k][f] \in Seq(STRING)

\* messages of the errors attemptAnalysis can end with, one or more of every
\* class its catch block tells apart
FinalFailureMessages ==
    {MissingKeyMessage, <<"permission">>, <<"access">>, <<"quota">>, <<"limit">>,
     <<"network">>, <<"connect">>, FetchFailed, <<"timeout">>, <<"ECONNRESET">>,
     <<"ETIMEDOUT">>, InvalidDataUrl, <<"Invalid image data">>, Boom}

\* C28: every string analyzeImageWithGemini returns for a failure begins
\* with "Error analyzing image with Gemini:", so processImageWithGemini
\* takes the OpenAI fallback after every failed Gemini explain and goes on
\* to the Gemini summarize step only after an explain that came back
C28_GeminiFailuresCarryThePrefix ==
    /\ \A msg \in FinalFailureMessages :
          StartsWith(AnalysisError(msg), GeminiErrorPrefix)
    /\ \A k \in 1..Len(calls) :
          (calls[k].op = "explain:gemini" /\ ~calls[k].ok /\ ~IsRetriedAttempt(k)) =>
              StartsWith(calls[k].text, GeminiErrorPrefix)
    /\ (impl = "route" /\ pc = "gm_summarize") =>
          (GeminiAttempts # <<>> /\ Last(GeminiAttempts).ok)
    /\ (impl = "route" /\ RouteModel(req) = "gemini" /\ pc = "oa_explain") =>
          StartsWith(loc.explanation, GeminiErrorPrefix)

C28_Witness ==
    /\ impl = "route"
    /\ pc = "oa_explain"
    /\ googleKey = "set"
    /\ GeminiAttempts # <<>>
    /\ ~Last(GeminiAttempts).ok
    /\ loc.explanation = AnalysisError(<<"quota">>)

\* the generic message of attemptAnalysis for an error with message msg
GenericAnalysisError(msg) == GeminiErrorPrefix \o <<SP>> \o msg

\* C29: the string analyzeImageWithGemini returns after its last attempt is
\* never the generic message of a transient network error (fetch failed,
\* network, timeout, ECONNRESET, ETIMEDOUT): such an error is reported with
\* the Network error message
C29_TransientErrorsEndAsNetworkError ==
    \A k \in 1..Len(calls) :
        (calls[k].op = "explain:gemini" /\ ~calls[k].ok /\ ~IsRetriedAttempt(k)) =>
            \A msg \in GeminiErrors :
                IsTransient(msg) => calls[k].text # GenericAnalysisError(msg)

-----------------------------------------------------------------------------
(* The client page (src/app/page.js).  Its state is held in the variables of
   the handler's model: slides is the slides state, i is currentSlide, pc is
   "loading" while isLoading is true, req.images.len is the number of
   uploaded images, thrown is the error state, and calls holds the handler
   that ran last. *)

currentSlide == i

isLoading == pc = "loading"

\* the index setCurrentSlide is given by goToNextSlide, or the index kept
goToNextSlideMutNoGuard(cur, len) == cur + 1

goToNextSlide(cur, len) == IF cur < len - 1 THEN cur + 1 ELSE cur

\* ... by goToPrevSlide
goToPrevSlide(cur) == IF cur > 0 THEN cur - 1 ELSE cur

InitPage ==
    /\ impl = "page"
    /\ req = [body |-> "json", images |-> [kind |-> "array", len |-> 0],
              model |-> "openai", messages |-> NoList, captions |-> NoList]
    /\ pc = "idle"
    /\ i = 0
    /\ loc = NoLoc
    /\ slides = <<>>
    /\ pushedFor = <<>>
    /\ response = NoResponse
    /\ calls = <<>>
    /\ vendorCalled = FALSE
    /\ thrown = Empty
    /\ googleKey = "unread"
    /\ retryCount = 0
    /\ parseIn = Empty
    /\ parseOut = NoParse

\* handleImageUpload with one or more files (lines 23-35)
PageUpload ==
    /\ \E n \in 1..MaxImages :
         req' = [req EXCEPT !.images.len = n]
    /\ calls' = <<Called("handleImageUpload", TRUE, Empty)>>
    /\ UNCHANGED <<pc, slides, i, thrown>>

\* generateSlides up to its first await (lines 49-56)
PageGenerateStart ==
    /\ ~isLoading
    /\ req.images.len > 0
    /\ pc' = "loading"
    /\ slides' = <<>>
    /\ thrown' = Empty
    /\ calls' = <<Called("generateSlides", TRUE, Empty)>>
    /\ UNCHANGED <<i, req>>

\* the answer is ok and holds a non-empty array of slides (lines 98-99, 105)
PageGenerateSucceeds ==
    /\ isLoading
    \* data.slides: the API is not bound to the number of images
    /\ \E n \in 1..(MaxImages + 1) : slides' = [k \in 1..n |-> k]
    /\ i' = 0
    /\ pc' = "idle"
    /\ UNCHANGED <<thrown, calls, req>>

\* reading a file, fetch or response.json() throws, the answer is not ok, or
\* it holds no slides (lines 90-96, 100-105)
PageGenerateFails ==
    /\ isLoading
    /\ \E msg \in {Boom, NoImagesProvided,
                    <<"No slides were generated from the API">>} : thrown' = msg
    /\ pc' = "idle"
    /\ UNCHANGED <<slides, i, calls, req>>

PageNext ==
    /\ i' = goToNextSlide(currentSlide, Len(slides))
    /\ calls' = <<Called("goToNextSlide", TRUE, Empty)>>
    /\ UNCHANGED <<pc, slides, thrown, req>>

PagePrev ==
    /\ i' = goToPrevSlide(currentSlide)
    /\ calls' = <<Called("goToPrevSlide", TRUE, Empty)>>
    /\ UNCHANGED <<pc, slides, thrown, req>>

NextPage ==
    /\ UNCHANGED <<impl, loc, pushedFor, response, vendorCalled, googleKey,
                   retryCount, parseIn, parseOut>>
    /\ \/ PageUpload
       \/ PageGenerateStart
       \/ PageGenerateSucceeds
       \/ PageGenerateFails
       \/ PageNext
       \/ PagePrev

SpecPage == InitPage /\ [][NextPage]_vars

\* C30: whenever the slide list of the page is non-empty, currentSlide is an
\* index of it; goToNextSlide at the last slide and goToPrevSlide at the
\* first slide leave currentSlide as it is
C30_CurrentSlideInRange ==
    /\ currentSlide >= 0
    /\ slides # <<>> => currentSlide < Len(slides)
    /\ (slides # <<>> /\ currentSlide = Len(slides) - 1) =>
          goToNextSlide(currentSlide, Len(slides)) = currentSlide
    /\ currentSlide = 0 => goToPrevSlide(currentSlide) = currentSlide

\* after a generateSlides that succeeded, the page shows the last of its
\* slides and goToNextSlide has run
C30_Witness ==
    /\ Len(slides) = MaxImages + 1
    /\ currentSlide = Len(slides) - 1
    /\ calls = <<Called("goToNextSlide", TRUE, Empty)>>
    /\ ~isLoading

====
